---- MODULE Spec2Model ----
(***************************************************************************)
(* A model of gen_dtrace_helper.py: the TypeDG indexer (__init__.walk),    *)
(* the declaration synthesizer (gen_decl), the dependency-ordered emitter  *)
(* (track) and the driver (explain), over a bounded family of DIE trees.   *)
(***************************************************************************)
EXTENDS Integers, Sequences, FiniteSets, TLC

VARIABLES
    dies,           \* the unit's DIE tree: offset -> DIE (attributes, children)
    offset_to_die,  \* self.offset_to_die: the offsets recorded by walk
    named_types,    \* self.named_types: sequence of [name, dies] in insertion order
    indexed,        \* TRUE when __init__ ran to the end (supported language)
    shown,          \* the caller-owned emission state (dict `shown`)
    out,            \* standard output: the sequence of print() calls
    last,           \* the last call made on this TypeDG and how it ended
    calls,          \* number of calls made so far
    fresh,          \* results of the passes that were started with a fresh state
    gennames        \* results of the calls of _get_die_name made by a caller

vars == <<dies, offset_to_die, named_types, indexed, shown, out, last, calls, fresh,
          gennames>>

(***************************************************************************)
(* Bounds of the model.                                                    *)
(***************************************************************************)
\* calls made on one shared emission state
MaxCalls == 2
\* the interpreter's recursion limit, scaled to the size of the trees
MaxDepth == 10
\* passes started with a fresh emission state
MaxFresh == 2
\* calls of _get_die_name made by a caller
MaxNames == 2

(***************************************************************************)
(* DIE trees.  Optional attributes are <<>> (absent) or <<value>>.         *)
(***************************************************************************)
\* die is None
Null == 0

\* offsets (die.offset - cu_offset) of the DIEs of the tree skeleton
Off == [TOP |-> 1, INT |-> 2, A |-> 3, AM1 |-> 4, AM2 |-> 5, B |-> 6,
        BM1 |-> 7, L1 |-> 8, LC |-> 9, L2 |-> 10, E |-> 11, EN0 |-> 12,
        EN1 |-> 13]

Offsets == 1..13

\* CU.cu_offset
cu_offset == 0

NoDie == [tag |-> "", name |-> <<>>, type |-> <<>>, decl |-> FALSE,
          size |-> <<>>, loc |-> <<>>, cval |-> <<>>, count |-> <<>>,
          file |-> <<>>, line |-> <<>>, lang |-> <<>>, children |-> <<>>]

\* line_program['file_entry']: the file names of the unit
file_entry == <<"a.c">>

\* TypeDG.LANGUAGES
LANGUAGES == {"DW_LANG_C", "DW_LANG_C89", "DW_LANG_C99", "DW_LANG_C11"}

\* TypeDG.TAGS_for_types; <<>> stands for None
TAGS_for_types ==
    [t \in {"DW_TAG_array_type", "DW_TAG_enumeration_type",
            "DW_TAG_structure_type", "DW_TAG_class_type", "DW_TAG_typedef",
            "DW_TAG_union_type", "DW_TAG_subprogram"} |->
        CASE t = "DW_TAG_array_type" -> <<>>
          [] t = "DW_TAG_enumeration_type" -> <<"enum">>
          [] t = "DW_TAG_structure_type" -> <<"struct">>
          [] t = "DW_TAG_class_type" -> <<"/*<class>*/struct">>
          [] t = "DW_TAG_typedef" -> <<"typedef">>
          [] t = "DW_TAG_union_type" -> <<"union">>
          [] t = "DW_TAG_subprogram" -> <<>>]

\* TypeDG.TAGS_for_qualifiers
TAGS_for_qualifiers ==
    [t \in {"DW_TAG_const_type", "DW_TAG_volatile_type",
            "DW_TAG_restrict_type", "DW_TAG_atomic_type"} |->
        CASE t = "DW_TAG_const_type" -> "const"
          [] t = "DW_TAG_volatile_type" -> "volatile"
          [] t = "DW_TAG_restrict_type" -> "restrict"
          [] t = "DW_TAG_atomic_type" -> "_Atomic"]

AggregateTags == {"DW_TAG_structure_type", "DW_TAG_class_type", "DW_TAG_union_type"}

(***************************************************************************)
(* Text helpers.                                                           *)
(***************************************************************************)
\* bytes.decode(ENCODING): a name is a sequence of characters
RECURSIVE decode(_)
decode(cs) == IF cs = <<>> THEN "" ELSE Head(cs) \o decode(Tail(cs))

HexDigits == <<"0", "1", "2", "3", "4", "5", "6", "7", "8", "9",
               "a", "b", "c", "d", "e", "f">>

\* format(n, 'x')
RECURSIVE Hex(_)
Hex(n) == IF n < 16 THEN HexDigits[n + 1]
          ELSE Hex(n \div 16) \o HexDigits[(n % 16) + 1]

\* ", ".join(xs) and ",\n".join(xs)
RECURSIVE Join(_, _)
Join(sep, xs) == IF xs = <<>> THEN ""
                 ELSE IF Len(xs) = 1 THEN xs[1]
                 ELSE xs[1] \o sep \o Join(sep, Tail(xs))

\* the characters the pattern badchars accepts as part of a name
GoodChars ==
    {"A", "B", "C", "D", "E", "F", "G", "H", "I", "J", "K", "L", "M", "N",
     "O", "P", "Q", "R", "S", "T", "U", "V", "W", "X", "Y", "Z",
     "a", "b", "c", "d", "e", "f", "g", "h", "i", "j", "k", "l", "m", "n",
     "o", "p", "q", "r", "s", "t", "u", "v", "w", "x", "y", "z",
     "0", "1", "2", "3", "4", "5", "6", "7", "8", "9", "_", " "}

\* badchars.match(name): ".*" does not cross a newline
badchars_match(cs) ==
    \E i \in 1..Len(cs) :
        /\ cs[i] \notin GoodChars
        /\ \A j \in 1..(i - 1) : cs[j] # "\n"

is_valid_name(cs) == ~badchars_match(cs)

\* Python truthiness of an optional string: None and "" are false
Truthy(opt) == opt # <<>> /\ opt[1] # ""

\* str(x) of an optional string inside an f-string
Str(opt) == IF opt = <<>> THEN "None" ELSE opt[1]

Ok(v) == [err |-> <<>>, val |-> v]
Err(type, msg) == [err |-> <<[type |-> type, msg |-> msg]>>, val |-> <<>>]

(***************************************************************************)
(* Naming and source locations.                                            *)
(***************************************************************************)
\* self.filedesc: index -> file name, indices from 0
filedesc == [li \in 0..(Len(file_entry) - 1) |-> file_entry[li + 1]]

src_location(die) ==
    LET loc_file == dies[die].file
        loc_line == dies[die].line
        srcfile == IF loc_file # <<>>
                   THEN LET fileno == loc_file[1] - 1
                        IN  IF fileno \in DOMAIN filedesc THEN filedesc[fileno]
                            ELSE "_nowhere" \o ToString(fileno) \o "_"
                   ELSE "_nowhere_"
        srcline == IF loc_line # <<>> THEN ":" \o ToString(loc_line[1]) ELSE ""
    IN  srcfile \o srcline

_get_stem(die) ==
    LET tag == dies[die].tag
        stem == IF tag \in DOMAIN TAGS_for_types THEN TAGS_for_types[tag] ELSE <<>>
    IN  IF stem = <<>> THEN Err("ParseError", "no stem is known for " \o tag)
        ELSE Ok(stem)

\* a generated name that leaves the offsets out
anon_by_stem(stem, die) == "anon_" \o stem

\* f"anon_{stem}_{self.cu_offset:x}_{die.offset:x}"
anon_name(stem, die) == "anon_" \o stem \o "_" \o Hex(cu_offset) \o "_" \o Hex(die)

_get_die_name(die, gensym) ==
    IF dies[die].name # <<>>
    THEN LET cs == dies[die].name[1]
         IN  IF is_valid_name(cs) THEN Ok(<<decode(cs)>>)
             ELSE Err("ParseError", "invalid C identifier '" \o decode(cs) \o "'")
    ELSE IF gensym
         THEN LET stem == _get_stem(die)
              IN  IF stem.err # <<>> THEN stem
                  ELSE Ok(<<anon_name(stem.val[1], die)>>)
         ELSE Ok(<<>>)

(***************************************************************************)
(* TypeGraph indexer: TypeDG.__init__ and its generator walk.              *)
(***************************************************************************)
Line(k, die, text) == [k |-> k, die |-> die, text |-> text]

\* names.setdefault(given_name, set()).add(die)
AddName(names, name, die) ==
    IF \E i \in 1..Len(names) : names[i].name = name
    THEN [i \in 1..Len(names) |->
            IF names[i].name = name
            THEN [names[i] EXCEPT !.dies = @ \cup {die}] ELSE names[i]]
    ELSE Append(names, [name |-> name, dies |-> {die}])

RECURSIVE walk(_, _)
RECURSIVE walk_children(_, _)

\* acc = [offs, names, out]: the pairs yielded, the name index, the text printed
walk(die, acc) ==
    LET given_name == _get_die_name(die, FALSE)
        isType == dies[die].tag \in DOMAIN TAGS_for_types
        named == IF isType /\ Truthy(given_name.val)
                 THEN [acc EXCEPT !.names = AddName(@, given_name.val[1], die)]
                 ELSE acc
        yielded == [named EXCEPT !.offs = @ \cup {die}]
    IN  IF isType /\ given_name.err # <<>>
        THEN [acc EXCEPT !.out = Append(@, Line("skipped", die,
                 "/* skipped " \o dies[die].tag \o " at " \o src_location(die)
                 \o ": " \o given_name.err[1].msg \o " */"))]
        ELSE walk_children(dies[die].children, yielded)

walk_children(kids, acc) ==
    IF kids = <<>> THEN acc
    ELSE walk_children(Tail(kids), walk(Head(kids), acc))

\* a language test that every unit passes
any_language(lang) == TRUE

\* top.attributes['DW_AT_language'].value in self.LANGUAGES
language_supported(lang) == lang \in LANGUAGES

\* TypeDG.__init__: an unsupported language leaves an empty name index
TypeDG_init ==
    LET top == Off.TOP
        supported == dies[top].lang # <<>> /\ language_supported(dies[top].lang[1])
        w == walk(top, [offs |-> {}, names |-> <<>>, out |-> <<>>])
    IN  IF ~supported
        THEN [indexed |-> FALSE, offs |-> {}, names |-> <<>>, out |-> <<>>]
        ELSE [indexed |-> TRUE, offs |-> w.offs, names |-> w.names, out |-> w.out]

_get_type_die(die) ==
    IF dies[die].type # <<>>
    THEN LET value == dies[die].type[1]
         IN  IF value \in offset_to_die THEN value ELSE Null
    ELSE Null

\* die.iter_children() restricted to one tag
ChildrenOf(die, tag) == SelectSeq(dies[die].children, LAMBDA c : dies[c].tag = tag)

(***************************************************************************)
(* Declaration synthesizer: TypeDG.gen_decl.                               *)
(* name is <<>> (None) or <<text>>; the result is Ok(text) or Err(..).     *)
(***************************************************************************)
RECURSIVE gen_decl(_, _)
RECURSIVE gen_fparams(_)

\* fparams.append(...) once the rest of the parameters is generated
fparams_append(p, rest) ==
    IF rest.err # <<>> THEN rest ELSE Ok(<<p.val>> \o rest.val)

gen_fparams(params) ==
    IF params = <<>> THEN Ok(<<>>)
    ELSE LET p == gen_decl(_get_type_die(Head(params)), <<>>)
         IN  IF p.err # <<>> THEN p
             ELSE fparams_append(p, gen_fparams(Tail(params)))

\* a subrange scan that finds no count
no_count(die) == "[]"

\* the subrange scan of the array rule: the last count found wins
array_count(die) ==
    LET withCount == SelectSeq(ChildrenOf(die, "DW_TAG_subrange_type"),
                               LAMBDA c : dies[c].count # <<>>)
    IN  IF withCount = <<>> THEN "[]"
        ELSE "[" \o ToString(dies[withCount[Len(withCount)]].count[1]) \o "]"

\* name rewritten with a declarator prefix
rewritten(prefix, name) == <<prefix \o (IF Truthy(name) THEN name[1] ELSE "")>>

\* the base-type rule: the entry's name, then the identifier
decl_base(n, name) ==
    IF n.err # <<>> THEN n
    ELSE IF n.val = <<>> THEN Err("TypeError", "NoneType + str")
    ELSE IF Truthy(name) THEN Ok(n.val[1] \o " " \o name[1])
    ELSE Ok(n.val[1])

\* the function rule: return type, (identifier), parameter list
decl_subroutine(fp, ret, name) ==
    IF fp.err # <<>> THEN fp
    ELSE IF ret.err # <<>> THEN ret
    ELSE IF name = <<>> THEN Err("TypeError", "str + NoneType")
    ELSE Ok(ret.val \o " (" \o name[1] \o ")("
            \o Join(", ", IF fp.val = <<>> THEN <<"void">> ELSE fp.val) \o ")")

\* the array rule: element type, identifier, count
decl_array(elem, name, count) ==
    IF elem.err # <<>> THEN elem
    ELSE IF name = <<>> THEN Err("TypeError", "str + NoneType")
    ELSE Ok(elem.val \o " " \o name[1] \o count)

\* prefix + the declaration under a qualifier
decl_prefixed(prefix, under) ==
    IF under.err # <<>> THEN under ELSE Ok(prefix \o under.val)

\* the named-kind rule: prefix, the entry's name, the identifier
decl_named(prefix, n, name) ==
    IF n.err # <<>> THEN n
    ELSE Ok(prefix \o n.val[1] \o (IF Truthy(name) THEN " " \o name[1] ELSE ""))

\* the rules of gen_decl on an entry that is not None
decl_rules(die, name, tag) ==
    CASE tag = "DW_TAG_base_type" -> decl_base(_get_die_name(die, FALSE), name)
      [] tag = "DW_TAG_pointer_type" ->
            gen_decl(_get_type_die(die), rewritten("*", name))
      [] tag = "DW_TAG_reference_type" ->
            gen_decl(_get_type_die(die), rewritten("/*<&>*/", name))
      [] tag = "DW_TAG_rvalue_reference_type" ->
            gen_decl(_get_type_die(die), rewritten("/*<&&>*/", name))
      [] tag = "DW_TAG_subroutine_type" ->
            decl_subroutine(gen_fparams(ChildrenOf(die, "DW_TAG_formal_parameter")),
                            gen_decl(_get_type_die(die), <<>>), name)
      [] tag = "DW_TAG_array_type" ->
            decl_array(gen_decl(_get_type_die(die), <<>>), name, array_count(die))
      [] tag \in DOMAIN TAGS_for_qualifiers ->
            decl_prefixed(IF tag = "DW_TAG_restrict_type" THEN ""
                          ELSE TAGS_for_qualifiers[tag] \o " ",
                          gen_decl(_get_type_die(die), name))
      [] tag \in DOMAIN TAGS_for_types /\ TAGS_for_types[tag] # <<>> ->
            decl_named(IF tag = "DW_TAG_typedef" THEN ""
                       ELSE TAGS_for_types[tag][1] \o " ",
                       _get_die_name(die, TRUE), name)
      [] OTHER -> Err("ParseError", "cannot generate decl. for " \o tag)

gen_decl(die, name) ==
    IF die = Null
    THEN IF name = <<>> THEN Ok("void") ELSE Ok("void " \o name[1])
    ELSE decl_rules(die, name, dies[die].tag)
(***************************************************************************)
(* Dependency-ordered emitter: TypeDG.track.                               *)
(* A run state st is [die, tag, out, err, deep]: shown's DIE keys, shown's *)
(* tag-name keys, the text printed, the exception in flight (<<>> when     *)
(* none) and the deepest nesting of track frames reached.                  *)
(***************************************************************************)
Raise(st, type, msg) == [st EXCEPT !.err = <<[type |-> type, msg |-> msg]>>]

RaiseErr(st, err) == [st EXCEPT !.err = err]

Failed(st) == st.err # <<>>

IsParseError(st) == Failed(st) /\ st.err[1].type = "ParseError"

\* except ParseError as e: raise ParseError(prefix + str(e)) from e
Rewrap(st, prefix) ==
    IF st.err = <<>> THEN st
    ELSE IF st.err[1].type = "ParseError"
         THEN Raise(st, "ParseError", prefix \o st.err[1].msg)
         ELSE st

Emit(st, line) == [st EXCEPT !.out = Append(@, line)]

\* a lookup under a key the state never holds
shown_get_missing(st, die) == "unseen"

\* shown.get(die, None), with "unseen" for None
shown_get(st, die) == st.die[die]

\* a membership test that never finds the tag
TagInNever(st, tag) == FALSE

\* tag in shown
TagIn(st, tag) == \E p \in st.tag : p[1] = tag

\* the members are tracked without marking the aggregate first
no_mark(st, tag, die) == st

\* shown[tag] = die; shown[die] = "defined", before the members are tracked
mark_defined(st, tag, die) ==
    [st EXCEPT !.tag = @ \cup {<<tag, die>>}, !.die[die] = "defined"]

\* the mode in which a qualifier tracks its underlying type
qualifier_mode(maybe_incomplete) == FALSE

\* a pointer that hands its own mode on to the pointee
caller_mode(maybe_incomplete) == maybe_incomplete

\* the mode in which a pointer tracks its pointee
pointer_mode(maybe_incomplete) == TRUE

\* truthiness of a present attribute object (an AttributeValue tuple)
AttrTruthy(attr) == attr # <<>>

\* the final state write of track
final_write(die, st, decl_only) ==
    IF decl_only
    THEN IF shown_get(st, die) # "defined"
         THEN [st EXCEPT !.die[die] = "declared"] ELSE st
    ELSE [st EXCEPT !.die[die] = "defined"]

RECURSIVE track(_, _, _, _)
RECURSIVE track_params(_, _, _)
RECURSIVE track_members(_, _, _)
RECURSIVE params_next(_, _, _)

\* the formal-parameter loop of the subprogram rule
track_params(params, st, depth) ==
    IF params = <<>> THEN st
    ELSE params_next(Rewrap(track(_get_type_die(Head(params)), st, depth, FALSE),
                            "formal-parameter -> "), Tail(params), depth)

\* the loop goes on to the next formal parameter unless an exception is in flight
params_next(s1, rest, depth) ==
    IF s1.err # <<>> THEN s1 ELSE track_params(rest, s1, depth)

\* except ParseError in the member loop: the message reads mtype.tag
member_handler(tried, mtype, mname) ==
    IF mtype = Null
    THEN Raise(tried, "AttributeError", "'NoneType' object has no attribute 'tag'")
    ELSE Raise(tried, "ParseError",
               "failed to track a member " \o dies[mtype].tag \o " "
               \o Str(mname) \o " " \o tried.err[1].msg)

\* members.append(...): the member's line, then the next child
member_append(kids, acc, depth, handled, decl) ==
    IF decl.err # <<>> THEN [acc EXCEPT !.st = RaiseErr(handled, decl.err)]
    ELSE track_members(Tail(kids),
            [st |-> handled,
             lines |-> Append(acc.lines, Line("member", Head(kids),
                "\t" \o decl.val \o ";" \o "\t/* +0x"
                \o Hex(dies[Head(kids)].loc[1]) \o " */"))],
            depth)

\* one member after its try block: tried is the state the block left
member_step(kids, acc, depth, mtype, mname, tried) ==
    CASE tried.err = <<>> ->
            member_append(kids, acc, depth, tried, gen_decl(mtype, mname))
      [] tried.err # <<>> /\ tried.err[1].type = "ParseError" ->
            [acc EXCEPT !.st = member_handler(tried, mtype, mname)]
      [] OTHER -> [acc EXCEPT !.st = tried]

\* one member with a location: mname = "??", then the try block of its name
\* and its type
member_at(kids, acc, depth, mtype, n) ==
    member_step(kids, acc, depth, mtype,
                IF n.err # <<>> THEN <<"??">> ELSE n.val,
                IF n.err # <<>> THEN RaiseErr(acc.st, n.err)
                ELSE track(mtype, acc.st, depth, FALSE))

\* the member loop of the aggregate rule; acc = [st, lines]
track_members(kids, acc, depth) ==
    CASE kids = <<>> -> acc
      [] kids # <<>> /\ (dies[Head(kids)].tag # "DW_TAG_member"
                         \/ dies[Head(kids)].loc = <<>>) ->
            track_members(Tail(kids), acc, depth)
      [] OTHER ->
            member_at(kids, acc, depth, _get_type_die(Head(kids)),
                      _get_die_name(Head(kids), FALSE))

\* one enumerator's line of text
enum_text(n, ctval) ==
    IF AttrTruthy(ctval) THEN "\t" \o Str(n.val) \o " = " \o ToString(ctval[1])
    ELSE "\t" \o Str(n.val)

\* members.append(...) once the rest of the enumerators is read
enum_append(text, rest) ==
    IF rest.err # <<>> THEN rest ELSE Ok(<<text>> \o rest.val)

\* the enumerator loop of the enumeration rule: Ok(list of texts) or Err
RECURSIVE enum_members(_)
enum_members(kids) ==
    IF kids = <<>> THEN Ok(<<>>)
    ELSE IF dies[Head(kids)].tag # "DW_TAG_enumerator" THEN enum_members(Tail(kids))
    ELSE IF dies[Head(kids)].cval = <<>> THEN Err("KeyError", "'DW_AT_const_value'")
    ELSE LET n == _get_die_name(Head(kids), FALSE)
         IN  IF n.err # <<>> THEN n
             ELSE enum_append(enum_text(n, dies[Head(kids)].cval),
                              enum_members(Tail(kids)))

RECURSIVE EmitAll(_, _)
EmitAll(st, lines) ==
    IF lines = <<>> THEN st ELSE EmitAll(Emit(st, Head(lines)), Tail(lines))

LocLine(die) == Line("loc", die, "\n/* @ " \o src_location(die) \o " */")

\* a body that prints member lines only
no_body(die, st, lines, size) == IF lines # <<>> THEN EmitAll(st, lines) ELSE st

\* the member lines, or a dummy char array for a memberless aggregate of size > 0
print_body(die, st, lines, size) ==
    IF lines # <<>> THEN EmitAll(st, lines)
    ELSE IF size > 0
         THEN Emit(st, Line("dummy", die, "\tchar dummy[0x" \o Hex(size) \o "];"))
         ELSE st

\* the prints of the aggregate rule, after the member loop m = [st, lines]
print_aggregate(die, m, hdr, size) ==
    CASE m.st.err # <<>> -> m.st
      [] m.st.err = <<>> /\ hdr.err # <<>> ->
            RaiseErr(Emit(m.st, LocLine(die)), hdr.err)
      [] OTHER ->
            final_write(die,
                Emit(print_body(die,
                        Emit(Emit(m.st, LocLine(die)),
                             Line("open", die,
                                  hdr.val \o "\t/* size=0x" \o Hex(size) \o " */")),
                        m.lines, size),
                     Line("close", die, "};")),
                FALSE)

\* the full definition of an aggregate, after the early returns
define_aggregate(die, st, tag, depth) ==
    IF dies[die].size = <<>>
    THEN Raise(mark_defined(st, tag, die), "KeyError", "'DW_AT_byte_size'")
    ELSE print_aggregate(die,
            track_members(dies[die].children,
                          [st |-> mark_defined(st, tag, die), lines |-> <<>>], depth),
            gen_decl(die, <<>>), dies[die].size[1])

\* the prints of the enumeration rule, after the enumerator loop
print_enumeration(die, marked, members, hdr) ==
    IF members.err # <<>> THEN RaiseErr(marked, members.err)
    ELSE IF hdr.err # <<>> THEN RaiseErr(marked, hdr.err)
    ELSE final_write(die,
            Emit(Emit(Emit(marked, Line("enum_open", die, hdr.val \o " {")),
                      Line("enum_body", die, Join(",\n", members.val))),
                 Line("enum_close", die, "};")),
            FALSE)

\* the enumeration rule, after the tag is computed
define_enumeration(die, st, tag) ==
    print_enumeration(die, [st EXCEPT !.tag = @ \cup {<<tag, die>>}],
                      enum_members(dies[die].children), gen_decl(die, <<>>))

\* a rule that only tracks what the entry refers to
finish(die, s1) == IF s1.err # <<>> THEN s1 ELSE final_write(die, s1, FALSE)

\* the prints of the typedef rule
print_typedef(die, s1, n, decl) ==
    CASE s1.err # <<>> -> s1
      [] s1.err = <<>> /\ n.err # <<>> -> RaiseErr(Emit(s1, LocLine(die)), n.err)
      [] s1.err = <<>> /\ n.err = <<>> /\ decl.err # <<>> ->
            RaiseErr(Emit(s1, LocLine(die)), decl.err)
      [] OTHER ->
            final_write(die,
                Emit(Emit(s1, LocLine(die)),
                     Line("typedef", die, "typedef " \o decl.val \o ";")),
                FALSE)

\* the forward declaration of an aggregate met in incomplete mode
declare_aggregate(die, s0, decl) ==
    IF decl.err # <<>> THEN RaiseErr(s0, decl.err)
    ELSE final_write(die, Emit(s0, Line("fwd", die, decl.val \o ";")), TRUE)

\* tag = self._get_die_name(die, True); if tag in shown: return
tagged(die, s0, n, depth) ==
    CASE n.err # <<>> -> RaiseErr(s0, n.err)
      [] n.err = <<>> /\ TagIn(s0, n.val[1]) -> s0
      [] n.err = <<>> /\ ~TagIn(s0, n.val[1])
         /\ dies[die].tag = "DW_TAG_enumeration_type" ->
            define_enumeration(die, s0, n.val[1])
      [] OTHER -> define_aggregate(die, s0, n.val[1], depth)

\* the bare except of the reference rules reads a name that is not bound
reference_handler(die, s1) ==
    IF s1.err # <<>> THEN Raise(s1, "NameError", "name 'e' is not defined")
    ELSE final_write(die, s1, FALSE)

\* the rules of track, on an entry that passed the early returns
rules(die, s0, d, maybe_incomplete, tag) ==
    CASE tag = "DW_TAG_base_type" -> final_write(die, s0, FALSE)
      [] tag \in {"DW_TAG_subprogram", "DW_TAG_subroutine_type"} ->
            finish(die, params_next(track(_get_type_die(die), s0, d, FALSE),
                                    ChildrenOf(die, "DW_TAG_formal_parameter"), d))
      [] tag = "DW_TAG_pointer_type" ->
            finish(die, Rewrap(track(_get_type_die(die), s0, d,
                                     pointer_mode(maybe_incomplete)), "pointer -> "))
      [] tag \in DOMAIN TAGS_for_qualifiers ->
            finish(die, track(_get_type_die(die), s0, d,
                              qualifier_mode(maybe_incomplete)))
      [] tag = "DW_TAG_typedef" ->
            LET n == _get_die_name(die, FALSE)
            IN  print_typedef(die,
                    Rewrap(track(_get_type_die(die), s0, d, FALSE), "typedef -> "),
                    n, gen_decl(_get_type_die(die), n.val))
      [] tag \in AggregateTags /\ maybe_incomplete ->
            declare_aggregate(die, s0, gen_decl(die, <<>>))
      [] tag \in AggregateTags /\ ~maybe_incomplete /\ dies[die].decl -> s0
      [] tag \in AggregateTags /\ ~maybe_incomplete /\ ~dies[die].decl ->
            tagged(die, s0, _get_die_name(die, TRUE), d)
      [] tag = "DW_TAG_array_type" ->
            finish(die, track(_get_type_die(die), s0, d, FALSE))
      [] tag = "DW_TAG_enumeration_type" ->
            tagged(die, s0, _get_die_name(die, TRUE), d)
      [] tag \in {"DW_TAG_reference_type", "DW_TAG_rvalue_reference_type"} ->
            reference_handler(die, track(_get_type_die(die), s0, d, FALSE))
      [] OTHER -> Raise(s0, "ParseError", "incmpatible DIE: " \o tag)

\* depth = depth + 1, with the deepest frame recorded in the run state
enter(st, d) == [st EXCEPT !.deep = IF d > @ THEN d ELSE @]

\* track without the early returns on the emission state
never_early(die, st, maybe_incomplete) == die = Null

\* the early returns of track: no entry, an entry already defined, or one
\* already declared when a declaration is all the caller needs
returns_early(die, st, maybe_incomplete) ==
    \/ die = Null
    \/ die # Null /\ shown_get(st, die) = "defined"
    \/ die # Null /\ shown_get(st, die) = "declared" /\ maybe_incomplete

track(die, st, depth, maybe_incomplete) ==
    CASE depth + 1 > MaxDepth ->
            Raise(st, "RecursionError", "maximum recursion depth exceeded")
      [] depth + 1 <= MaxDepth /\ returns_early(die, st, maybe_incomplete) ->
            enter(st, depth + 1)
      [] OTHER ->
            rules(die, enter(st, depth + 1), depth + 1, maybe_incomplete,
                  dies[die].tag)

(***************************************************************************)
(* Explainer/driver: TypeDG.explain.                                       *)
(***************************************************************************)
RECURSIVE Perms(_)
Perms(S) == IF S = {} THEN {<<>>}
            ELSE UNION {{<<x>> \o p : p \in Perms(S \ {x})} : x \in S}

\* the orders in which the loops of explain can meet the candidates: names in
\* insertion order, the set of DIEs of one name in any order
RECURSIVE Orders(_)
Orders(names) ==
    IF names = <<>> THEN {<<>>}
    ELSE {[i \in 1..Len(p) |-> [name |-> Head(names).name, die |-> p[i]]] \o rest :
            p \in Perms(Head(names).dies), rest \in Orders(Tail(names))}

\* except ParseError as e: print the skipped candidate and go on
report_skipped(c, r) ==
    Emit([r EXCEPT !.err = <<>>], Line("skipped", c.die,
         "/* skipped " \o dies[c.die].tag \o " '" \o c.name \o "'"
         \o " at " \o src_location(c.die) \o ": " \o r.err[1].msg \o " */"))

\* one candidate tracked: reported when a ParseError, fatal when another exception
RECURSIVE explain_loop(_, _)
explain_next(cands, tried, r) ==
    CASE r.err = <<>> -> explain_loop(Tail(cands), [st |-> r, tried |-> tried])
      [] r.err # <<>> /\ r.err[1].type = "ParseError" ->
            explain_loop(Tail(cands),
                [st |-> report_skipped(Head(cands), r), tried |-> tried])
      [] OTHER -> [st |-> r, tried |-> tried]

\* the loops of explain over one order; acc = [st, tried]
explain_loop(cands, acc) ==
    IF cands = <<>> THEN acc
    ELSE explain_next(cands, Append(acc.tried, Head(cands).die),
                      track(Head(cands).die, acc.st, 0, FALSE))

(***************************************************************************)
(* The family of units the model is run on.                                *)
(***************************************************************************)
Chars(s) == <<s>>

\* the variants of the second aggregate B
BVariant(v, kids) ==
    LET b == [NoDie EXCEPT !.tag = "DW_TAG_structure_type", !.name = <<Chars("B")>>,
                           !.size = <<4>>, !.file = <<1>>, !.line = <<9>>,
                           !.children = kids]
    IN  CASE v = "plain" -> b
          [] v = "same" -> [b EXCEPT !.name = <<Chars("A")>>]
          [] v = "bad" -> [b EXCEPT !.name = <<<<"B", ".", "0">>>>]
          [] v = "anon" -> [b EXCEPT !.name = <<>>]
          [] v = "union" -> [b EXCEPT !.tag = "DW_TAG_union_type"]
          [] v = "decl" -> [b EXCEPT !.decl = TRUE, !.size = <<>>, !.children = <<>>]
          [] v = "nosize" -> [b EXCEPT !.size = <<>>]
          [] v = "empty" -> [b EXCEPT !.size = <<20>>, !.children = <<>>]

LinkName(k, n) == IF k \in {"DW_TAG_typedef", "DW_TAG_subprogram"} THEN <<Chars(n)>> ELSE <<>>

\* p = [lang, am, bv, bm, l1k, l1t, l2k, l2t, ev, mn]
MkUnit(p) ==
    [o \in Offsets |->
        CASE o = Off.TOP ->
                [NoDie EXCEPT !.tag = "DW_TAG_compile_unit", !.lang = <<p.lang>>,
                              !.children = <<Off.INT, Off.A, Off.B, Off.L1, Off.L2, Off.E>>]
          [] o = Off.INT ->
                [NoDie EXCEPT !.tag = "DW_TAG_base_type", !.name = <<<<"i", "n", "t">>>>,
                              !.size = <<4>>]
          [] o = Off.A ->
                [NoDie EXCEPT !.tag = "DW_TAG_structure_type", !.name = <<Chars("A")>>,
                              !.size = <<24>>, !.file = <<1>>, !.line = <<3>>,
                              !.children = SubSeq(<<Off.AM1, Off.AM2>>, 1, Len(p.am))]
          [] o = Off.AM1 ->
                [NoDie EXCEPT !.tag = "DW_TAG_member",
                              !.name = IF p.mn = "ok" THEN <<Chars("x")>>
                                       ELSE <<<<"x", "$">>>>,
                              !.type = IF Len(p.am) >= 1 THEN <<p.am[1]>> ELSE <<>>,
                              !.loc = <<0>>]
          [] o = Off.AM2 ->
                [NoDie EXCEPT !.tag = "DW_TAG_member", !.name = <<Chars("y")>>,
                              !.type = IF Len(p.am) >= 2 THEN <<p.am[2]>> ELSE <<>>,
                              !.loc = <<16>>]
          [] o = Off.B -> BVariant(p.bv, SubSeq(<<Off.BM1>>, 1, Len(p.bm)))
          [] o = Off.BM1 ->
                [NoDie EXCEPT !.tag = "DW_TAG_member", !.name = <<Chars("m")>>,
                              !.type = IF Len(p.bm) >= 1 THEN <<p.bm[1]>> ELSE <<>>,
                              !.loc = <<0>>]
          [] o = Off.L1 ->
                [NoDie EXCEPT !.tag = p.l1k, !.name = LinkName(p.l1k, "T"),
                              !.type = IF p.l1k = "DW_TAG_subroutine_type" THEN <<>>
                                       ELSE p.l1t,
                              !.line = <<5>>,
                              !.children =
                                 IF p.l1k \in {"DW_TAG_subroutine_type", "DW_TAG_array_type"}
                                 THEN <<Off.LC>> ELSE <<>>]
          [] o = Off.LC ->
                IF p.l1k = "DW_TAG_array_type"
                THEN [NoDie EXCEPT !.tag = "DW_TAG_subrange_type", !.count = <<4>>]
                ELSE [NoDie EXCEPT !.tag = "DW_TAG_formal_parameter", !.type = p.l1t]
          [] o = Off.L2 ->
                [NoDie EXCEPT !.tag = p.l2k, !.name = LinkName(p.l2k, "U"),
                              !.type = p.l2t, !.file = <<2>>]
          [] o = Off.E ->
                [NoDie EXCEPT !.tag = "DW_TAG_enumeration_type", !.name = <<Chars("E")>>,
                              !.size = <<4>>, !.children = <<Off.EN0, Off.EN1>>]
          [] o = Off.EN0 ->
                [NoDie EXCEPT !.tag = "DW_TAG_enumerator", !.name = <<<<"R", "E", "D">>>>,
                              !.cval = <<0>>]
          [] o = Off.EN1 ->
                [NoDie EXCEPT !.tag = "DW_TAG_enumerator", !.name = <<Chars("G")>>,
                              !.cval = IF p.ev = "ok" THEN <<1>> ELSE <<>>]]

LinkTo(kinds, targets) == {[k |-> k, t |-> t] : k \in kinds, t \in targets}

Params(ams, bvs, bms, l1s, l2s, evs, mns) ==
    {[lang |-> "DW_LANG_C99", am |-> am, bv |-> bv, bm |-> bm,
      l1k |-> l1.k, l1t |-> l1.t, l2k |-> l2.k, l2t |-> l2.t, ev |-> ev, mn |-> mn] :
        am \in ams, bv \in bvs, bm \in bms, l1 \in l1s, l2 \in l2s, ev \in evs,
        mn \in mns}

\* units whose aggregates are tied by pointers, typedefs and qualifiers
PointerParams ==
    Params({<<Off.L1>>, <<Off.L1, Off.L2>>, <<Off.B>>}, {"plain"},
           {<<Off.A>>, <<Off.L1>>, <<Off.L2>>},
           LinkTo({"DW_TAG_pointer_type"}, {<<Off.A>>, <<Off.B>>, <<Off.L2>>}),
           LinkTo({"DW_TAG_pointer_type", "DW_TAG_typedef", "DW_TAG_const_type"},
                  {<<Off.A>>, <<Off.B>>}),
           {"ok"}, {"ok"})

\* units whose first link is not a pointer
ValueParams ==
    Params({<<Off.L1>>, <<Off.L1, Off.L2>>, <<Off.B>>}, {"plain"},
           {<<Off.A>>, <<Off.L1>>, <<Off.L2>>},
           LinkTo({"DW_TAG_typedef", "DW_TAG_const_type", "DW_TAG_subroutine_type"},
                  {<<Off.A>>, <<Off.B>>, <<Off.L2>>}),
           LinkTo({"DW_TAG_pointer_type"}, {<<Off.A>>, <<Off.B>>}),
           {"ok"}, {"ok"})

\* units whose second aggregate varies in name, kind and attributes
AttrParams ==
    Params({<<Off.B>>, <<Off.B, Off.B>>, <<Off.L1, Off.E>>},
           {"same", "bad", "anon", "union", "decl", "nosize", "empty"},
           {<<Off.L1>>},
           LinkTo({"DW_TAG_pointer_type", "DW_TAG_typedef", "DW_TAG_reference_type"},
                  {<<Off.B>>}),
           LinkTo({"DW_TAG_pointer_type"}, {<<Off.B>>}),
           {"ok"}, {"ok"})

\* units with entries the emitter has no rule for, or that lack attributes
ErrorParams ==
    Params({<<Off.L1, Off.E>>}, {"plain", "nosize"}, {<<>>},
           LinkTo({"DW_TAG_pointer_type", "DW_TAG_array_type", "DW_TAG_reference_type",
                   "DW_TAG_unspecified_type"}, {<<Off.B>>, <<Off.L2>>}),
           LinkTo({"DW_TAG_unspecified_type"}, {<<>>}),
           {"ok", "noval"}, {"ok", "bad"})

\* a unit in a language outside LANGUAGES
OtherParams ==
    {[p EXCEPT !.lang = "DW_LANG_C_plus_plus"] :
        p \in Params({<<Off.B>>}, {"plain"}, {<<>>},
                     LinkTo({"DW_TAG_pointer_type"}, {<<Off.B>>}),
                     LinkTo({"DW_TAG_typedef"}, {<<Off.A>>}), {"ok"}, {"ok"})}

Units == {MkUnit(p) : p \in PointerParams \cup ValueParams \cup AttrParams
                            \cup ErrorParams \cup OtherParams}

(***************************************************************************)
(* The state machine: construction, then calls on the TypeDG.              *)
(***************************************************************************)
\* an empty emission state
EmptyShown == [die |-> [o \in Offsets |-> "unseen"], tag |-> {}]

\* a state kept from the previous independent pass instead of a new one
stale_state == IF fresh = <<>> THEN EmptyShown ELSE fresh[Len(fresh)].shown

\* shown = {}: the state a caller creates for an independent pass
fresh_state == EmptyShown

NoErr == <<>>

Run(sh, o) == [die |-> sh.die, tag |-> sh.tag, out |-> o, err |-> NoErr, deep |-> 0]

Constructed(U) ==
    /\ dies \in U
    /\ \E t \in {TypeDG_init} :
           /\ offset_to_die = t.offs
           /\ named_types = t.names
           /\ indexed = t.indexed
           /\ out = t.out
    /\ shown = EmptyShown
    /\ last = [op |-> "init", die |-> Null, inc |-> FALSE, err |-> NoErr,
               pre |-> EmptyShown, preout |-> 0, deep |-> 0,
               cands |-> <<>>, tried |-> <<>>, name |-> <<>>, text |-> ""]
    /\ calls = 0
    /\ fresh = <<>>
    /\ gennames = <<>>

Init == Constructed(Units)

\* the DIEs a caller passes to track directly
CallDies == {Off.A, Off.B, Off.L1, Off.L2}

\* a caller calls dg.track(die, shown, 0, maybe_incomplete)
TrackCall(die, maybe_incomplete) ==
    /\ indexed
    /\ calls < MaxCalls
    /\ die \in offset_to_die
    /\ \E r \in {track(die, Run(shown, out), 0, maybe_incomplete)} :
           /\ shown' = [die |-> r.die, tag |-> r.tag]
           /\ out' = r.out
           /\ last' = [op |-> "track", die |-> die, inc |-> maybe_incomplete,
                       err |-> r.err, pre |-> shown, preout |-> Len(out),
                       deep |-> r.deep, cands |-> <<>>, tried |-> <<>>,
                       name |-> <<>>, text |-> ""]
    /\ calls' = calls + 1
    /\ UNCHANGED <<dies, offset_to_die, named_types, indexed, fresh, gennames>>

\* the main program calls dg.explain(filter, shown) with the shared state
Explain ==
    /\ calls < MaxCalls
    /\ \E cands \in Orders(named_types) :
         \E r \in {explain_loop(cands, [st |-> Run(shown, out), tried |-> <<>>])} :
             /\ shown' = [die |-> r.st.die, tag |-> r.st.tag]
             /\ out' = r.st.out
             /\ last' = [op |-> "explain", die |-> Null, inc |-> FALSE,
                         err |-> r.st.err, pre |-> shown, preout |-> Len(out),
                         deep |-> r.st.deep, cands |-> cands, tried |-> r.tried,
                         name |-> <<>>, text |-> ""]
    /\ calls' = calls + 1
    /\ UNCHANGED <<dies, offset_to_die, named_types, indexed, fresh, gennames>>

Next ==
    \/ \E die \in CallDies, mi \in BOOLEAN : TrackCall(die, mi)
    \/ Explain

Spec == Init /\ [][Next]_vars

(***************************************************************************)
(* Independent passes: each creates its own emission state and output.     *)
(***************************************************************************)
FreshRoots == {Off.A, Off.B, Off.L1, Off.L2, Off.E}

FreshPass(die) ==
    /\ indexed
    /\ Len(fresh) < MaxFresh
    /\ die \in offset_to_die
    /\ \E r \in {track(die, Run(fresh_state, <<>>), 0, FALSE)} :
           fresh' = Append(fresh, [root |-> die, out |-> r.out, err |-> r.err,
                                   shown |-> [die |-> r.die, tag |-> r.tag]])
    /\ UNCHANGED <<dies, offset_to_die, named_types, indexed, shown, out, last, calls,
                   gennames>>

NextFresh == \E die \in FreshRoots : FreshPass(die)

SpecFresh == Init /\ [][NextFresh]_vars

(***************************************************************************)
(* The synthesizer on its own: units of declarator shapes, and calls of    *)
(* gen_decl with an identifier.                                            *)
(***************************************************************************)
DeclParams ==
    Params({<<Off.L1, Off.L2>>}, {"plain", "anon", "union"}, {<<>>},
           LinkTo({"DW_TAG_pointer_type", "DW_TAG_array_type", "DW_TAG_const_type",
                   "DW_TAG_volatile_type", "DW_TAG_restrict_type", "DW_TAG_typedef",
                   "DW_TAG_reference_type", "DW_TAG_subroutine_type"},
                  {<<Off.INT>>, <<Off.L2>>, <<Off.B>>}),
           LinkTo({"DW_TAG_subroutine_type", "DW_TAG_pointer_type"},
                  {<<>>, <<Off.INT>>}),
           {"ok"}, {"ok"})

DeclUnits == {MkUnit(p) : p \in DeclParams}

Identifiers == {<<>>, <<"x">>, <<"arr">>, <<"fp">>, <<"c">>}

GenDeclCall(die, name) ==
    /\ indexed
    /\ die = Null \/ die \in offset_to_die
    /\ \E r \in {gen_decl(die, name)} :
           last' = [last EXCEPT !.op = "gen_decl", !.die = die, !.name = name,
                                !.err = r.err,
                                !.text = IF r.err = <<>> THEN r.val ELSE ""]
    /\ UNCHANGED <<dies, offset_to_die, named_types, indexed, shown, out, calls, fresh,
                   gennames>>

InitDecl == Constructed(DeclUnits)

NextDecl ==
    \E die \in {Null, Off.INT, Off.A, Off.B, Off.L1, Off.L2, Off.E}, name \in Identifiers :
        GenDeclCall(die, name)

SpecDecl == InitDecl /\ [][NextDecl]_vars

(***************************************************************************)
(* The naming function on its own: units whose aggregates and enumeration  *)
(* may be anonymous, and calls of _get_die_name by a caller.               *)
(***************************************************************************)
\* the entries of a unit that can lose their name
Nameable == {Off.A, Off.B, Off.E}

\* a unit with the entries of anon left without DW_AT_name
Anonymous(U, anon) ==
    [o \in Offsets |-> IF o \in anon THEN [U[o] EXCEPT !.name = <<>>] ELSE U[o]]

NameParams ==
    Params({<<Off.L1, Off.L2>>}, {"plain", "union", "bad"}, {<<>>},
           LinkTo({"DW_TAG_pointer_type"}, {<<Off.B>>}),
           LinkTo({"DW_TAG_typedef"}, {<<Off.A>>}), {"ok"}, {"ok"})

NameUnits == {Anonymous(MkUnit(p), anon) : p \in NameParams, anon \in SUBSET Nameable}

\* a caller calls dg._get_die_name(die, gensym)
GetDieNameCall(die, gensym) ==
    /\ indexed
    /\ Len(gennames) < MaxNames
    /\ \E r \in {_get_die_name(die, gensym)} :
           gennames' = Append(gennames, [die |-> die, gensym |-> gensym,
                                         err |-> r.err, val |-> r.val])
    /\ UNCHANGED <<dies, offset_to_die, named_types, indexed, shown, out, last, calls,
                   fresh>>

InitName == Constructed(NameUnits)

NextName ==
    \E die \in {Off.INT, Off.A, Off.B, Off.L1, Off.L2, Off.E}, gensym \in BOOLEAN :
        GetDieNameCall(die, gensym)

SpecName == InitName /\ [][NextName]_vars

(***************************************************************************)
(* Vocabulary of the properties.                                           *)
(***************************************************************************)
Recorded == offset_to_die

Aggregates == {d \in Recorded : dies[d].tag \in AggregateTags}

\* the tag name under which track records and prints an aggregate or enumeration
TagName(die) == _get_die_name(die, TRUE).val[1]

\* the members of an aggregate that track emits
EmittedMembers(die) ==
    {c \in Recorded : /\ \E i \in DOMAIN dies[die].children : dies[die].children[i] = c
                      /\ dies[c].tag = "DW_TAG_member"
                      /\ dies[c].loc # <<>>}

\* the aggregate a member belongs to
ParentOf(member) ==
    CHOOSE a \in DOMAIN dies :
        \E i \in DOMAIN dies[a].children : dies[a].children[i] = member

PassThroughTags == DOMAIN TAGS_for_qualifiers \cup {"DW_TAG_typedef", "DW_TAG_array_type"}

\* the aggregates a type needs complete: reached by value
RECURSIVE ByValue(_)
ByValue(die) ==
    IF die = Null THEN {}
    ELSE IF dies[die].tag \in AggregateTags THEN {die}
    ELSE IF dies[die].tag \in PassThroughTags THEN ByValue(_get_type_die(die))
    ELSE {}

Needs(agg) == UNION {ByValue(_get_type_die(m)) : m \in EmittedMembers(agg)}

RECURSIVE NeedsClosure(_, _)
NeedsClosure(frontier, seen) ==
    IF frontier \subseteq seen THEN seen
    ELSE NeedsClosure(UNION {Needs(a) : a \in frontier}, seen \cup frontier)

\* the aggregates agg needs complete, directly or through other aggregates
NeedsStar(agg) == NeedsClosure(Needs(agg), {})

\* the aggregate tags a declarator of this type spells out
RECURSIVE UsedTags(_)
UsedTags(die) ==
    IF die = Null THEN {}
    ELSE LET tag == dies[die].tag
         IN  IF tag \in AggregateTags THEN {TagName(die)}
             ELSE IF tag \in DOMAIN TAGS_for_qualifiers
                            \cup {"DW_TAG_pointer_type", "DW_TAG_array_type",
                                  "DW_TAG_reference_type",
                                  "DW_TAG_rvalue_reference_type"}
                  THEN UsedTags(_get_type_die(die))
             ELSE IF tag = "DW_TAG_subroutine_type"
                  THEN UsedTags(_get_type_die(die))
                       \cup UNION {UsedTags(_get_type_die(dies[die].children[i])) :
                                     i \in {j \in DOMAIN dies[die].children :
                                              dies[dies[die].children[j]].tag
                                                 = "DW_TAG_formal_parameter"}}
             ELSE {}

\* positions of the output where an aggregate or enumeration body starts
DefinitionsOf(tag) ==
    {i \in DOMAIN out : out[i].k \in {"open", "enum_open"} /\ TagName(out[i].die) = tag}

\* positions of the output that declare a tag, forward or in full
DeclarationsOf(tag) ==
    {i \in DOMAIN out : out[i].k \in {"fwd", "open"} /\ TagName(out[i].die) = tag}

\* the dependencies track recurses into
Deps(die) ==
    LET tag == dies[die].tag
        typed(S) == {_get_type_die(c) : c \in S} \ {Null}
        kids(t) == {c \in Recorded : /\ dies[c].tag = t
                                     /\ \E i \in DOMAIN dies[die].children :
                                            dies[die].children[i] = c}
    IN  IF tag \in {"DW_TAG_subprogram", "DW_TAG_subroutine_type"}
        THEN typed({die} \cup kids("DW_TAG_formal_parameter"))
        ELSE IF tag \in AggregateTags THEN typed(EmittedMembers(die))
        ELSE IF tag \in PassThroughTags
                       \cup {"DW_TAG_pointer_type", "DW_TAG_reference_type",
                             "DW_TAG_rvalue_reference_type"}
             THEN typed({die})
        ELSE {}

RECURSIVE LinkReach(_, _)
LinkReach(frontier, seen) ==
    LET links == {d \in frontier : dies[d].tag \notin AggregateTags}
    IN  IF links \subseteq seen THEN seen
        ELSE LinkReach(UNION {Deps(d) : d \in links}, seen \cup links)

\* every cycle of the type graph passes through an aggregate entry
CyclesPassAggregates ==
    \A d \in Recorded : dies[d].tag \in AggregateTags \/ d \notin LinkReach(Deps(d), {})

\* the entries of the unit's tree
RECURSIVE Subtree(_)
Subtree(die) ==
    {die} \cup UNION {Subtree(dies[die].children[i]) : i \in DOMAIN dies[die].children}

\* the entries track passes through on the way to its dependencies
Links ==
    {d \in Recorded :
        dies[d].tag \in PassThroughTags
                        \cup {"DW_TAG_pointer_type", "DW_TAG_reference_type",
                              "DW_TAG_rvalue_reference_type", "DW_TAG_subprogram",
                              "DW_TAG_subroutine_type"}}

\* the deepest nesting of track frames a graph of this size can need: each
\* aggregate is expanded once, and between two expansions lies a chain of
\* distinct links
DepthBound == (Cardinality(Aggregates) + 1) * (Cardinality(Links) + 1)

\* the last call ran the emitter and every failure in it stayed inside
NoFailure ==
    /\ last.err = <<>>
    /\ \A i \in DOMAIN out : i > last.preout => out[i].k # "skipped"

(***************************************************************************)
(* Properties.                                                             *)
(***************************************************************************)

\* C1: dependents follow dependencies.  When an aggregate X has an emitted
\* member whose type reaches another aggregate Y by value (through typedef,
\* array and qualifier entries only), Y is complete and does not itself need X
\* complete, then every full definition of X in the output comes after a
\* full definition of Y's tag.
C1_DependentsFollowDependencies ==
    \A x \in Aggregates : \A y \in Needs(x) :
        (/\ TagName(x) # TagName(y)
         /\ ~dies[y].decl
         /\ x \notin NeedsStar(y))
        => \A i \in DOMAIN out :
              (out[i].k = "open" /\ out[i].die = x)
              => \E j \in DefinitionsOf(TagName(y)) : j < i

\* no aggregate contains itself by value: what a C compiler can emit
ByValueAcyclic == \A a \in Aggregates : a \notin NeedsStar(a)

\* C2: no use of an aggregate tag before a declaration of it.  In a unit where
\* no aggregate contains itself by value, every member line and typedef line
\* that spells an aggregate tag comes after a forward declaration or the start
\* of the full definition of that tag, or is a member line inside that tag's
\* own body.
C2_NoUseBeforeDeclaration ==
    ByValueAcyclic
    => \A i \in DOMAIN out :
          out[i].k \in {"member", "typedef"}
          => \A t \in UsedTags(_get_type_die(out[i].die)) :
                \/ \E j \in DeclarationsOf(t) : j < i
                \/ /\ out[i].k = "member"
                   /\ TagName(ParentOf(out[i].die)) = t

\* C3: at most one full definition is printed per aggregate or enumeration
\* tag name, whatever entries carry the name; and when the first call on the
\* emission state ends without a failure, every aggregate or enumeration
\* entry it left DEFINED has exactly one full definition of its tag.
C3_OneDefinitionPerTag ==
    /\ \A d \in Recorded :
          dies[d].tag \in AggregateTags \cup {"DW_TAG_enumeration_type"}
          => Cardinality(DefinitionsOf(TagName(d))) <= 1
    /\ (calls = 1 /\ last.op \in {"track", "explain"} /\ NoFailure)
       => \A d \in Recorded :
             (/\ dies[d].tag \in AggregateTags \cup {"DW_TAG_enumeration_type"}
              /\ shown.die[d] = "defined")
             => Cardinality(DefinitionsOf(TagName(d))) = 1

\* two entries share one tag name, explain met both, one definition is printed
C3_Witness ==
    /\ last.op = "explain"
    /\ \E a, b \in Aggregates :
          /\ a # b
          /\ TagName(a) = TagName(b)
          /\ \E i, j \in DOMAIN last.tried : last.tried[i] = a /\ last.tried[j] = b
          /\ Cardinality(DefinitionsOf(TagName(a))) = 1

\* C4: on a graph whose cycles all pass through an aggregate, a call of track
\* or explain returns without exhausting the recursion limit, the nesting of
\* track frames stays within a bound given by the size of the graph, and a
\* member of a struct that points to the struct itself is printed as a
\* pointer to the same tag.
C4_TerminatesOnAggregateCycles ==
    (CyclesPassAggregates /\ last.op \in {"track", "explain"})
    => /\ last.err = <<>> \/ last.err[1].type # "RecursionError"
       /\ last.deep <= DepthBound
       /\ DepthBound < MaxDepth
       /\ \A i \in DOMAIN out :
             LET m == out[i].die
                 ptr == _get_type_die(m)
             IN  (/\ out[i].k = "member"
                  /\ ptr # Null
                  /\ dies[ptr].tag = "DW_TAG_pointer_type"
                  /\ _get_type_die(ptr) = ParentOf(m)
                  /\ dies[ParentOf(m)].tag = "DW_TAG_structure_type")
                 => out[i].text = "\tstruct " \o TagName(ParentOf(m)) \o " *"
                                  \o decode(dies[m].name[1]) \o ";\t/* +0x"
                                  \o Hex(dies[m].loc[1]) \o " */"

\* a struct with a pointer member to itself was tracked in full and printed
C4_Witness ==
    /\ last.op \in {"track", "explain"}
    /\ last.err = <<>>
    /\ \E i \in DOMAIN out :
          /\ out[i].k = "member"
          /\ _get_type_die(out[i].die) # Null
          /\ dies[_get_type_die(out[i].die)].tag = "DW_TAG_pointer_type"
          /\ _get_type_die(_get_type_die(out[i].die)) = ParentOf(out[i].die)
          /\ \E j \in DOMAIN out : j > i /\ out[j].k = "close"
                                   /\ out[j].die = ParentOf(out[i].die)

\* the last call was track on a pointer entry whose pointee is a struct
PointerToStructCall ==
    /\ last.op = "track"
    /\ dies[last.die].tag = "DW_TAG_pointer_type"
    /\ _get_type_die(last.die) # Null
    /\ dies[_get_type_die(last.die)].tag = "DW_TAG_structure_type"

\* C5: tracking a pointer whose pointee struct is absent from the emission
\* state prints exactly the forward declaration `struct Tag;`, no full
\* definition, and leaves the struct DECLARED; tracking a pointer to a struct
\* that is DECLARED prints nothing and leaves it DECLARED.
C5_PointerNeedsOnlyForwardDeclaration ==
    PointerToStructCall
    => LET s == _get_type_die(last.die)
       IN  /\ last.pre.die[s] = "unseen"
              => /\ last.err = <<>>
                 /\ Len(out) = last.preout + 1
                 /\ out[Len(out)] = Line("fwd", s, "struct " \o TagName(s) \o ";")
                 /\ shown.die[s] = "declared"
                 /\ shown.tag = last.pre.tag
           /\ last.pre.die[s] = "declared"
              => /\ last.err = <<>>
                 /\ Len(out) = last.preout
                 /\ shown.die[s] = "declared"

\* a second pointer to a struct that an earlier pointer left DECLARED was tracked
C5_Witness ==
    /\ PointerToStructCall
    /\ last.pre.die[_get_type_die(last.die)] = "declared"
    /\ last.pre.die[last.die] = "unseen"
    /\ shown.die[last.die] = "defined"
    /\ \E i \in DOMAIN out : out[i].k = "fwd" /\ out[i].die = _get_type_die(last.die)
    /\ DefinitionsOf(TagName(_get_type_die(last.die))) = {}

\* C6: the emission state is monotonic across calls.  An entry that was
\* DEFINED before a call is DEFINED after it, an entry that was DECLARED is
\* DECLARED or DEFINED after it, and no tag name is removed.
C6_StateIsMonotonic ==
    /\ \A d \in Offsets :
          /\ last.pre.die[d] = "defined" => shown.die[d] = "defined"
          /\ last.pre.die[d] = "declared" => shown.die[d] \in {"declared", "defined"}
    /\ last.pre.tag \subseteq shown.tag

\* an allow-incomplete request was made on an aggregate that was DEFINED
C6_Witness ==
    /\ last.op = "track"
    /\ last.inc
    /\ dies[last.die].tag \in AggregateTags
    /\ last.pre.die[last.die] = "defined"
    /\ shown.die[last.die] = "defined"

\* C7: explain invokes the emitter for every candidate and no failure halts
\* it: after explain, no exception is in flight and the candidates tried are
\* all the candidates of the index.
C7_ExplainIsolatesEveryFailure ==
    last.op = "explain"
    => /\ last.err = <<>>
       /\ last.tried = [i \in DOMAIN last.cands |-> last.cands[i].die]

\* C8: after construction for a supported language the offset map holds every
\* entry of the unit's tree, and every entry of a named-type kind with a valid
\* non-empty name is in the name index.
C8_IndexRecordsEveryEntry ==
    indexed
    => /\ offset_to_die = Subtree(Off.TOP)
       /\ \A d \in Subtree(Off.TOP) :
             (/\ dies[d].tag \in DOMAIN TAGS_for_types
              /\ dies[d].name # <<>>
              /\ dies[d].name[1] # <<>>
              /\ is_valid_name(dies[d].name[1]))
             => \E i \in DOMAIN named_types :
                   /\ named_types[i].name = decode(dies[d].name[1])
                   /\ d \in named_types[i].dies

\* the type an entry refers to is the base type int
RefersToInt(die) ==
    /\ _get_type_die(die) # Null
    /\ dies[_get_type_die(die)].tag = "DW_TAG_base_type"
    /\ dies[_get_type_die(die)].name = <<<<"i", "n", "t">>>>

\* the last call was gen_decl on an entry of this kind with this identifier
DeclCallOn(tag, ident) ==
    /\ last.op = "gen_decl"
    /\ last.die # Null
    /\ dies[last.die].tag = tag
    /\ last.name = <<ident>>

\* the last call was gen_decl on a pointer to a subroutine type without
\* return type and without formal parameters, with identifier fp
FunctionPointerCall ==
    /\ DeclCallOn("DW_TAG_pointer_type", "fp")
    /\ _get_type_die(last.die) # Null
    /\ dies[_get_type_die(last.die)].tag = "DW_TAG_subroutine_type"
    /\ dies[_get_type_die(last.die)].type = <<>>
    /\ ChildrenOf(_get_type_die(last.die), "DW_TAG_formal_parameter") = <<>>

\* the last call was gen_decl on an array of int whose subrange count is 4
ArrayOfFourCall ==
    /\ DeclCallOn("DW_TAG_array_type", "arr")
    /\ RefersToInt(last.die)
    /\ Len(ChildrenOf(last.die, "DW_TAG_subrange_type")) = 1
    /\ dies[ChildrenOf(last.die, "DW_TAG_subrange_type")[1]].count = <<4>>

\* C9: the declarator literals: pointer to int named x is "int *x", array of
\* int with count 4 named arr is "int arr[4]", pointer to a subroutine type
\* without return type and parameters named fp is "void (*fp)(void)", const
\* over int named c is "const int c".
C9_SynthesisLiterals ==
    /\ (DeclCallOn("DW_TAG_pointer_type", "x") /\ RefersToInt(last.die))
       => last.err = <<>> /\ last.text = "int *x"
    /\ ArrayOfFourCall => last.err = <<>> /\ last.text = "int arr[4]"
    /\ FunctionPointerCall => last.err = <<>> /\ last.text = "void (*fp)(void)"
    /\ (DeclCallOn("DW_TAG_const_type", "c") /\ RefersToInt(last.die))
       => last.err = <<>> /\ last.text = "const int c"

\* gen_decl was called on the array of four int with identifier arr
C9_Witness == ArrayOfFourCall /\ last.text = "int arr[4]"

OffsetMembers(die) ==
    SelectSeq(dies[die].children,
              LAMBDA c : dies[c].tag = "DW_TAG_member" /\ dies[c].loc # <<>>)

\* C11: a full aggregate definition of an entry without a member carrying a
\* storage offset and with a byte size above zero has a body of exactly one
\* line, the padding byte array of the declared size, between its opening
\* line and its closing line; a declared size of 20 is spelled 0x14.
C11_PaddingForMemberlessAggregate ==
    \A i \in DOMAIN out :
        (/\ out[i].k = "open"
         /\ OffsetMembers(out[i].die) = <<>>
         /\ dies[out[i].die].size[1] > 0)
        => /\ i + 2 <= Len(out)
           /\ out[i + 1] = Line("dummy", out[i].die,
                  "\tchar dummy[0x" \o Hex(dies[out[i].die].size[1]) \o "];")
           /\ dies[out[i].die].size = <<20>>
                 => out[i + 1].text = "\tchar dummy[0x14];"
           /\ out[i + 2] = Line("close", out[i].die, "};")

\* a memberless struct of 20 bytes was printed in full
C11_Witness ==
    \E i \in DOMAIN out :
        /\ out[i].k = "open"
        /\ dies[out[i].die].children = <<>>
        /\ dies[out[i].die].size = <<20>>
        /\ i + 2 <= Len(out)
        /\ out[i + 1].text = "\tchar dummy[0x14];"
        /\ out[i + 2].k = "close"

\* the unit declares a source language outside the supported C set
ForeignUnit == dies[Off.TOP].lang[1] \notin LANGUAGES

\* C12: a unit whose declared language is outside the supported C set
\* contributes nothing: its name index is empty, construction prints nothing,
\* and explain on it prints nothing, raises nothing and leaves the caller's
\* emission state as it was.
C12_ForeignUnitContributesNothing ==
    ForeignUnit
    => /\ named_types = <<>>
       /\ out = <<>>
       /\ last.op = "explain"
             => /\ last.err = <<>>
                /\ last.cands = <<>>
                /\ Len(out) = last.preout
                /\ shown = last.pre

\* explain was called twice on a unit written in C++
C12_Witness ==
    /\ ForeignUnit
    /\ dies[Off.TOP].lang = <<"DW_LANG_C_plus_plus">>
    /\ last.op = "explain"
    /\ calls = 2

\* an aggregate or enumeration entry without DW_AT_name
AnonymousEntry(die) ==
    /\ dies[die].tag \in AggregateTags \cup {"DW_TAG_enumeration_type"}
    /\ dies[die].name = <<>>

\* C13: generated names are deterministic and injective.  Two calls of
\* _get_die_name(die, gensym) on the same entry give the same result; calls
\* with gensym on two different anonymous aggregate or enumeration entries
\* both succeed and give different names; the anonymous enumeration at offset
\* 11 of the unit at offset 0 is named anon_enum_0_b.
C13_GeneratedNamesInjective ==
    \A i, j \in DOMAIN gennames :
        /\ (gennames[i].die = gennames[j].die /\ gennames[i].gensym = gennames[j].gensym)
           => gennames[i] = gennames[j]
        /\ (/\ gennames[i].gensym /\ gennames[j].gensym
            /\ AnonymousEntry(gennames[i].die) /\ AnonymousEntry(gennames[j].die)
            /\ gennames[i].die # gennames[j].die)
           => /\ gennames[i].err = <<>> /\ gennames[j].err = <<>>
              /\ gennames[i].val # <<>> /\ gennames[j].val # <<>>
              /\ gennames[i].val # gennames[j].val
        /\ (/\ gennames[i].gensym /\ AnonymousEntry(gennames[i].die)
            /\ gennames[i].die = Off.E)
           => gennames[i].val = <<"anon_enum_0_b">>

\* two anonymous structs of one unit were named, one after the other
C13_Witness ==
    /\ Len(gennames) >= 2
    /\ gennames[1].gensym /\ gennames[2].gensym
    /\ gennames[1].die = Off.A /\ gennames[2].die = Off.B
    /\ AnonymousEntry(Off.A) /\ AnonymousEntry(Off.B)
    /\ dies[Off.A].tag = dies[Off.B].tag
    /\ gennames[1].val = <<"anon_struct_0_3">>
    /\ gennames[2].val = <<"anon_struct_0_6">>

\* the last call was track on a pointer to a qualifier or reference entry whose
\* underlying type is an aggregate absent from the emission state
PointerThroughQualifierCall ==
    /\ last.op = "track"
    /\ dies[last.die].tag = "DW_TAG_pointer_type"
    /\ _get_type_die(last.die) # Null
    /\ dies[_get_type_die(last.die)].tag
          \in DOMAIN TAGS_for_qualifiers
               \cup {"DW_TAG_reference_type", "DW_TAG_rvalue_reference_type"}
    /\ _get_type_die(_get_type_die(last.die)) # Null
    /\ dies[_get_type_die(_get_type_die(last.die))].tag \in AggregateTags
    /\ last.pre.die[_get_type_die(_get_type_die(last.die))] = "unseen"
    /\ ~\E p \in last.pre.tag : p[1] = TagName(_get_type_die(_get_type_die(last.die)))

\* C14: a qualifier or reference entry hands the caller's mode on to its
\* underlying type: tracking a pointer to a qualified aggregate that is absent
\* from the emission state prints only the forward declaration of the
\* aggregate and leaves it DECLARED.
C14_QualifierKeepsMode ==
    PointerThroughQualifierCall
    => LET s == _get_type_die(_get_type_die(last.die))
       IN  /\ last.err = <<>>
           /\ Len(out) = last.preout + 1
           /\ out[Len(out)].k = "fwd"
           /\ out[Len(out)].die = s
           /\ shown.die[s] = "declared"

\* positions of the output that hold the typedef line of an entry
TypedefLinesOf(die) == {i \in DOMAIN out : out[i].k = "typedef" /\ out[i].die = die}

\* C15: over one shared emission state the typedef line of a typedef entry is
\* printed at most once, in every unit where no aggregate contains itself by
\* value.
C15_TypedefPrintedOnce ==
    ByValueAcyclic => \A d \in Offsets : Cardinality(TypedefLinesOf(d)) <= 1

\* the last call was a call of track on an entry that was already DEFINED, or
\* DECLARED when the caller allowed an incomplete type
ReEntry ==
    /\ last.op = "track"
    /\ \/ last.pre.die[last.die] = "defined"
       \/ last.pre.die[last.die] = "declared" /\ last.inc

\* C16: re-entry is a no-op.  A call of track on an entry that is already
\* DEFINED (in either mode), or DECLARED when the caller allows an incomplete
\* type, returns normally, prints nothing, enters no frame for a dependency
\* and leaves the emission state as it was.
C16_ReEntryIsNoOp ==
    ReEntry =>
        /\ last.err = <<>>
        /\ Len(out) = last.preout
        /\ last.deep = 1
        /\ shown = last.pre

\* a second allow-incomplete request on an aggregate that was only DECLARED,
\* and a unit where a pointer entry that is DEFINED is tracked again
C16_Witness ==
    /\ ReEntry
    /\ \/ /\ last.inc
          /\ dies[last.die].tag \in AggregateTags
          /\ last.pre.die[last.die] = "declared"
       \/ /\ dies[last.die].tag = "DW_TAG_pointer_type"
          /\ last.pre.die[last.die] = "defined"

\* the requests track makes for the dependencies of an entry it handles in
\* the given mode: a pointer asks for its target in incomplete mode, an
\* aggregate met in incomplete mode, declaration-only or not DEFINED by entry
\* identity (skipped for a tag name already recorded) asks for nothing, and
\* every other entry asks for its dependencies in full mode
Requests(req) ==
    LET d == req[1]
        tag == dies[d].tag
    IN  IF tag = "DW_TAG_pointer_type" THEN {<<t, TRUE>> : t \in Deps(d)}
        ELSE IF tag \in AggregateTags /\ (req[2] \/ dies[d].decl) THEN {}
        ELSE IF tag \in AggregateTags /\ shown.die[d] # "defined" THEN {}
        ELSE {<<t, FALSE>> : t \in Deps(d)}

RECURSIVE RequestClosure(_, _)
RequestClosure(frontier, seen) ==
    IF frontier \subseteq seen THEN seen
    ELSE RequestClosure(UNION {Requests(r) : r \in frontier}, seen \cup frontier)

\* the dependencies reachable from a root tracked in full mode, each with the
\* mode it is asked for
ReachableRequests(root) == RequestClosure(Requests(<<root, FALSE>>), {})

\* DEFINED by entry identity or, for an aggregate or enumeration, by tag name
IsDefined(d) ==
    \/ shown.die[d] = "defined"
    \/ /\ dies[d].tag \in AggregateTags \cup {"DW_TAG_enumeration_type"}
       /\ _get_die_name(d, TRUE).err = <<>>
       /\ \E p \in shown.tag : p[1] = TagName(d)

\* the dependency rule for one request
Satisfied(req) ==
    IF dies[req[1]].tag \in AggregateTags /\ req[2]
    THEN shown.die[req[1]] \in {"declared", "defined"} \/ IsDefined(req[1])
    ELSE IsDefined(req[1]) \/ (dies[req[1]].tag \in AggregateTags /\ dies[req[1]].decl)

\* C17: when track of a root in full mode returns normally, the emission state
\* satisfies the dependency rule for everything reachable from the root: an
\* aggregate that is the direct target of a pointer is at least DECLARED, and
\* every other dependency is DEFINED by entry identity or by tag name, except
\* aggregates that are declaration-only.
C17_DependencyRuleAfterTrack ==
    (last.op = "track" /\ ~last.inc /\ last.err = <<>>) =>
        \A req \in ReachableRequests(last.die) : Satisfied(req)

\* the enumerator children of an enumeration, in order
Enumerators(die) ==
    SelectSeq(dies[die].children, LAMBDA c : dies[c].tag = "DW_TAG_enumerator")

\* one enumerator as the rule describes it: `name = value` when a constant
\* value is present and not zero, the bare name otherwise
RenderedEnumerator(c) ==
    IF dies[c].cval # <<>> /\ dies[c].cval[1] # 0
    THEN "\t" \o Str(_get_die_name(c, FALSE).val) \o " = " \o ToString(dies[c].cval[1])
    ELSE "\t" \o Str(_get_die_name(c, FALSE).val)

RenderedEnumerators(die) ==
    [i \in DOMAIN Enumerators(die) |-> RenderedEnumerator(Enumerators(die)[i])]

\* C18: when track prints an enumeration, each enumerator is rendered
\* `name = value` when its constant value is present and bare `name` otherwise,
\* and a present constant value of zero is rendered bare, without "= 0".
C18_EnumeratorRendering ==
    \A i \in DOMAIN out :
        out[i].k = "enum_body" =>
            out[i].text = Join(",\n", RenderedEnumerators(out[i].die))

\* the full definition of an aggregate or enumeration entry has been printed,
\* from its opening line to its closing line
FullyPrinted(d) ==
    \E i, j \in DOMAIN out :
        /\ i < j
        /\ out[i].die = d /\ out[i].k \in {"open", "enum_open"}
        /\ out[j].die = d /\ out[j].k \in {"close", "enum_close"}

\* the aggregates and enumerations the emission state records as DEFINED, by
\* entry identity or by tag name
RecordedDefined ==
    {d \in Offsets : /\ dies[d].tag \in AggregateTags \cup {"DW_TAG_enumeration_type"}
                     /\ \/ shown.die[d] = "defined"
                        \/ \E p \in shown.tag : p[2] = d}

\* C19: an aborted emission leaves no phantom definition.  After explain has
\* gone through its roots and returned, skipping the roots whose track raised
\* ParseError, every aggregate or enumeration the emission state records as
\* DEFINED, by entry identity or by tag name, has its full definition in the
\* output.
C19_NoPhantomDefinition ==
    (last.op = "explain" /\ last.err = <<>>) =>
        \A d \in RecordedDefined : FullyPrinted(d)

\* the size comment track prints on the opening line of an aggregate
SizeComment(d) ==
    IF dies[d].size = <<>> THEN "" ELSE "\t/* size=0x" \o Hex(dies[d].size[1]) \o " */"

\* the opening lines that carry the stem, the tag and an opening brace, with
\* the size comment before or after the brace or without it
BracedHeaders(d) ==
    {gen_decl(d, <<>>).val \o " {",
     gen_decl(d, <<>>).val \o " {" \o SizeComment(d),
     gen_decl(d, <<>>).val \o SizeComment(d) \o " {"}

\* the output lines that print an opening brace: the opening line of an
\* enumeration, and the opening line of an aggregate when it carries one
OpeningBraces ==
    {i \in DOMAIN out : \/ out[i].k = "enum_open"
                        \/ out[i].k = "open" /\ out[i].text \in BracedHeaders(out[i].die)}

\* the output lines that print a closing brace
ClosingBraces == {i \in DOMAIN out : out[i].k \in {"close", "enum_close"}}

\* C20: every full aggregate definition in the output is a well-bracketed
\* block: its opening line carries the stem, the tag and an opening brace, its
\* closing line is `};`, and the output holds as many opening braces as
\* closing braces.
C20_AggregatesWellBracketed ==
    /\ \A i \in DOMAIN out :
          /\ out[i].k = "open" => out[i].text \in BracedHeaders(out[i].die)
          /\ out[i].k = "close" => out[i].text = "};"
    /\ Cardinality(OpeningBraces) = Cardinality(ClosingBraces)

====
